---- MODULE Spec2Model ----
(***************************************************************************)
(* Execution coordination of the browser code runner.                      *)
(*                                                                         *)
(*   Spec    the JS/TS/PHP dispatcher (SimpleSandboxManager), the PHP      *)
(*           backend manager (PHPSandboxManager) and the state sink.       *)
(*   SpecPy  the worker-isolated Python backend: PythonSandboxManager,     *)
(*           the python worker and the two message channels.               *)
(*   SpecWorker  one python worker context under any INIT and package      *)
(*           load messages.                                                *)
(*   SpecMon the runtime monitor (RuntimeMonitoringLayer) and its timers.  *)
(*   SpecLedger  the monitor's two ledgers filled past their caps.         *)
(*   SpecGate    the analyzer's risk level and the security gate, on       *)
(*           every short list of issues.                                   *)
(*                                                                         *)
(* Every handler of the source is one action.  The sequential body of a    *)
(* handler is written as an operator from a state record S to a state      *)
(* record, so that a handler that calls another (stopExecution, addOutput, *)
(* cleanupExecution) is the composition of the operators.                  *)
(***************************************************************************)
EXTENDS Integers, Sequences, FiniteSets, TLC

\* ------------------------------------------------------------------ bounds
MaxCalls == 2      \* executeCode calls made on the dispatcher
MaxPyCalls == 2    \* executeCode calls made on the Python manager
MaxQueue == 2      \* worker messages in flight up to which a run keeps printing
MaxOut == 2        \* stream length up to which an engine keeps printing
MaxInits == 2      \* INIT messages delivered to one worker context
MaxLoads == 2      \* package load requests made on the Python manager

Attempts == 1..MaxCalls
PyAttempts == 1..MaxPyCalls

\* ------------------------------------------------------- ids and events
Null == [m |-> "null", n |-> 0]
ExecId(e) == [m |-> "exec", n |-> e]
PhpId(e) == [m |-> "php-exec", n |-> e]
PyId(k) == [m |-> "python-exec", n |-> k]

\* One Output Event.  msg abstracts the message text; exec is the call
\* (attempt number) whose closure emitted the event.
Ev(t, src, msg, e) == [type |-> t, source |-> src, msg |-> msg, exec |-> e]

VARIABLES
  \* SimpleSandboxManager
  executionId, timeoutId, timers, dpc, calls, languageOf,
  \* state sink (store)
  isRunning, stExecutionId, executionTime, firstExecutionTime, isCompiling,
  outputs,
  \* security coordinator and engines, as seen from the dispatcher
  monitoring, blockedExecutions, gateCalls, engineRuns, phpRuns,
  \* PHPSandboxManager
  phpExecutionId, phpTimeoutId, phpTimers, isExecuting, currentPhpInstance,
  PhpWebClass, ppc, pOwner, phpOutput, phpErrors,
  \* PythonSandboxManager
  pyExecutionId, pyTimeoutId, pyTimers, pyIsExecuting, isInitialized, worker,
  resolveReady, pypc, pcode, pcalls,
  \* python workers (a worker is named by the call that created it), the
  \* runs they host (named by the call that posted EXECUTE) and the messages
  \* on their way to the manager
  wState, wrun, wOf, toMain,
  \* RuntimeMonitoringLayer: the two ledgers, the number of entries ever
  \* recorded in each (an entry carries its number in place of a timestamp),
  \* the timers its windows have scheduled, the number of windows started,
  \* and how the last call on the monitor ended
  violations, events, violationsRecorded, eventsRecorded, mTimers, mWindow,
  monResult,
  \* one python worker context seen at the level of its messages: its
  \* module variables, the bootstraps and package loads it is awaiting, and
  \* the manager's set of loaded package names
  isReady, pyodide, inits, bootImport, bootLoad, toWorker, loaderCalls,
  loadsPending, loadRequests, loadedPackages,
  \* the security gate: the issues the analyzer's patterns find in the code,
  \* the analysis result and the environment record built from them
  \* (riskLevel "none": not built yet)
  analysisIssues, analysis, environment,
  \* the worker's terminated flag, and for each EXECUTE whether the flag
  \* was set when the worker received it
  terminated, execFlagged,
  \* the coordinator's switch, the length of the code analysed, the
  \* confidence of the analysis result (a fraction num/den) and the number
  \* of analyses made of the code as it grew
  isEnabled, codeLength, confidence, analyzeCalls

vars == <<executionId, timeoutId, timers, dpc, calls, languageOf, isRunning,
          stExecutionId, executionTime, firstExecutionTime, isCompiling,
          outputs, monitoring, blockedExecutions, gateCalls, engineRuns,
          phpRuns,
          phpExecutionId, phpTimeoutId, phpTimers, isExecuting,
          currentPhpInstance, PhpWebClass, ppc, pOwner, phpOutput, phpErrors,
          pyExecutionId, pyTimeoutId, pyTimers, pyIsExecuting, isInitialized,
          worker, resolveReady, pypc, pcode, pcalls, wState, wrun, wOf,
          toMain, violations, events, violationsRecorded, eventsRecorded,
          mTimers, mWindow, monResult,
          isReady, pyodide, inits, bootImport, bootLoad, toWorker,
          loaderCalls,
          loadsPending, loadRequests, loadedPackages, analysisIssues,
          analysis, environment, isEnabled, codeLength, confidence,
          analyzeCalls, terminated, execFlagged>>

Cur == [executionId |-> executionId, timeoutId |-> timeoutId,
        timers |-> timers, dpc |-> dpc, calls |-> calls,
        languageOf |-> languageOf,
        isRunning |-> isRunning, stExecutionId |-> stExecutionId,
        executionTime |-> executionTime,
        firstExecutionTime |-> firstExecutionTime,
        isCompiling |-> isCompiling, outputs |-> outputs,
        monitoring |-> monitoring,
        blockedExecutions |-> blockedExecutions, gateCalls |-> gateCalls,
        engineRuns |-> engineRuns, phpRuns |-> phpRuns,
        phpExecutionId |-> phpExecutionId, phpTimeoutId |-> phpTimeoutId,
        phpTimers |-> phpTimers, isExecuting |-> isExecuting,
        currentPhpInstance |-> currentPhpInstance,
        PhpWebClass |-> PhpWebClass, ppc |-> ppc, pOwner |-> pOwner,
        phpOutput |-> phpOutput, phpErrors |-> phpErrors,
        pyExecutionId |-> pyExecutionId, pyTimeoutId |-> pyTimeoutId,
        pyTimers |-> pyTimers, pyIsExecuting |-> pyIsExecuting,
        isInitialized |-> isInitialized, worker |-> worker,
        resolveReady |-> resolveReady, pypc |-> pypc, pcode |-> pcode,
        pcalls |-> pcalls, wState |-> wState, wrun |-> wrun, wOf |-> wOf,
        toMain |-> toMain,
        violations |-> violations,
        events |-> events,
        violationsRecorded |-> violationsRecorded,
        eventsRecorded |-> eventsRecorded,
        mTimers |-> mTimers,
        mWindow |-> mWindow,
        monResult |-> monResult,
        isReady |-> isReady,
        pyodide |-> pyodide,
        inits |-> inits,
        bootImport |-> bootImport,
        bootLoad |-> bootLoad,
        toWorker |-> toWorker,
        loaderCalls |-> loaderCalls,
        loadsPending |-> loadsPending,
        loadRequests |-> loadRequests,
        loadedPackages |-> loadedPackages,
        analysisIssues |-> analysisIssues,
        analysis |-> analysis,
        environment |-> environment,
        isEnabled |-> isEnabled, codeLength |-> codeLength,
        confidence |-> confidence, analyzeCalls |-> analyzeCalls,
        terminated |-> terminated, execFlagged |-> execFlagged]

Commit(S) ==
  /\ executionId' = S.executionId
  /\ timeoutId' = S.timeoutId
  /\ timers' = S.timers
  /\ dpc' = S.dpc
  /\ calls' = S.calls
  /\ languageOf' = S.languageOf
  /\ isRunning' = S.isRunning
  /\ stExecutionId' = S.stExecutionId
  /\ executionTime' = S.executionTime
  /\ firstExecutionTime' = S.firstExecutionTime
  /\ isCompiling' = S.isCompiling
  /\ outputs' = S.outputs
  /\ monitoring' = S.monitoring
  /\ blockedExecutions' = S.blockedExecutions
  /\ gateCalls' = S.gateCalls
  /\ engineRuns' = S.engineRuns
  /\ phpRuns' = S.phpRuns
  /\ phpExecutionId' = S.phpExecutionId
  /\ phpTimeoutId' = S.phpTimeoutId
  /\ phpTimers' = S.phpTimers
  /\ isExecuting' = S.isExecuting
  /\ currentPhpInstance' = S.currentPhpInstance
  /\ PhpWebClass' = S.PhpWebClass
  /\ ppc' = S.ppc
  /\ pOwner' = S.pOwner
  /\ phpOutput' = S.phpOutput
  /\ phpErrors' = S.phpErrors
  /\ pyExecutionId' = S.pyExecutionId
  /\ pyTimeoutId' = S.pyTimeoutId
  /\ pyTimers' = S.pyTimers
  /\ pyIsExecuting' = S.pyIsExecuting
  /\ isInitialized' = S.isInitialized
  /\ worker' = S.worker
  /\ resolveReady' = S.resolveReady
  /\ pypc' = S.pypc
  /\ pcode' = S.pcode
  /\ pcalls' = S.pcalls
  /\ wState' = S.wState
  /\ wrun' = S.wrun
  /\ wOf' = S.wOf
  /\ toMain' = S.toMain
  /\ violations' = S.violations
  /\ events' = S.events
  /\ violationsRecorded' = S.violationsRecorded
  /\ eventsRecorded' = S.eventsRecorded
  /\ mTimers' = S.mTimers
  /\ mWindow' = S.mWindow
  /\ monResult' = S.monResult
  /\ isReady' = S.isReady
  /\ pyodide' = S.pyodide
  /\ inits' = S.inits
  /\ bootImport' = S.bootImport
  /\ bootLoad' = S.bootLoad
  /\ toWorker' = S.toWorker
  /\ loaderCalls' = S.loaderCalls
  /\ loadsPending' = S.loadsPending
  /\ loadRequests' = S.loadRequests
  /\ loadedPackages' = S.loadedPackages
  /\ analysisIssues' = S.analysisIssues
  /\ analysis' = S.analysis
  /\ environment' = S.environment
  /\ isEnabled' = S.isEnabled
  /\ codeLength' = S.codeLength
  /\ confidence' = S.confidence
  /\ analyzeCalls' = S.analyzeCalls
  /\ terminated' = S.terminated
  /\ execFlagged' = S.execFlagged

\* ------------------------------------------------------------ state sink
\* addOutput that puts the new event in front of the stream
AddOutputInFront(S, t, src, msg, e) ==
  [S EXCEPT !.outputs = <<Ev(t, src, msg, e)>> \o @]

AddOutput(S, t, src, msg, e) ==
  [S EXCEPT !.outputs = Append(@, Ev(t, src, msg, e))]

ClearOutputs(S) == [S EXCEPT !.outputs = <<>>]

RECURSIVE AddOutputs(_, _, _, _, _, _)
AddOutputs(S, k, t, src, msg, e) ==
  IF k = 0 THEN S
  ELSE AddOutputs(AddOutput(S, t, src, msg, e), k - 1, t, src, msg, e)

\* --------------------------------------------------- security coordinator
\* the analyses the dispatcher is driven with: no issue, and a warning with
\* a critical error
GateInputs == {<<>>, <<"low", "critical">>}

\* the runs the JS engine is driven with: what the program prints and how
\* the run ends.  The program returns or throws; or the runtime monitor
\* raises 'execution blocked' - from its first checks when monitoring starts,
\* or from the resource check of a wrapped setTimeout the program calls,
\* which the program either lets through or catches itself.
JsPrograms ==
  {[logs |-> 0, outcome |-> "ok"], [logs |-> 1, outcome |-> "ok"],
   [logs |-> 0, outcome |-> "throw"], [logs |-> 0, outcome |-> "blockedAtStart"],
   [logs |-> 1, outcome |-> "blockedInRun"],
   [logs |-> 0, outcome |-> "blockedCaught"]}

\* issues.filter((i) => i.severity === sev).length
Count(issues, sev) == Len(SelectSeq(issues, LAMBDA s : s = sev))

\* calculateRiskLevel with "at least" in place of "more than"
CalculateRiskLevelAtLeast(issues) ==
  IF Count(issues, "critical") > 0 THEN "critical"
  ELSE IF Count(issues, "high") >= 2 THEN "high"
  ELSE IF Count(issues, "high") > 0 \/ Count(issues, "medium") >= 3
       THEN "medium"
  ELSE "low"

\* calculateRiskLevel that reports critical for exactly one critical issue
CalculateRiskLevelSingleCritical(issues) ==
  IF Count(issues, "critical") = 1 THEN "critical"
  ELSE IF Count(issues, "high") > 2 THEN "high"
  ELSE IF Count(issues, "high") > 0 \/ Count(issues, "medium") > 3
       THEN "medium"
  ELSE "low"

CalculateRiskLevel(issues) ==
  IF Count(issues, "critical") > 0 THEN "critical"
  ELSE IF Count(issues, "high") > 2 THEN "high"
  ELSE IF Count(issues, "high") > 0 \/ Count(issues, "medium") > 3
       THEN "medium"
  ELSE "low"

\* Fractions num/den stand for the numbers of calculateConfidence.
\* issueDensity = issues.length / Math.max(codeLength / 100, 1)
IssueDensity(issues, length) ==
  [num |-> 100 * Len(issues), den |-> IF length > 100 THEN length ELSE 100]

\* calculateConfidence without the floor of 0.1
CalculateConfidenceNoFloor(issues, length) ==
  IF Len(issues) = 0
  THEN [num |-> 1, den |-> 1]
  ELSE LET d == IssueDensity(issues, length)
       IN [num |-> 10 * d.den - d.num, den |-> 10 * d.den]

\* calculateConfidence: Math.max(0.1, 1.0 - issueDensity * 0.1)
CalculateConfidence(issues, length) ==
  IF Len(issues) = 0
  THEN [num |-> 1, den |-> 1]
  ELSE LET d == IssueDensity(issues, length)
           v == [num |-> 10 * d.den - d.num, den |-> 10 * d.den]
       IN IF 10 * v.num > v.den THEN v ELSE [num |-> 1, den |-> 10]

\* CodeAnalysisLayer.analyze, from the issues its patterns have found (the
\* security coordinator is enabled, as constructed)
Analyze(issues) ==
  [safe |-> issues = <<>>, riskLevel |-> CalculateRiskLevel(issues)]

\* SecurityManager.analyzeCode on the code at hand, its result kept in
\* analysis and confidence
AnalyzeCodeBody(S) ==
  IF ~S.isEnabled
  THEN [S EXCEPT !.analysis = [safe |-> TRUE, riskLevel |-> "low"],
                 !.confidence = [num |-> 1, den |-> 1],
                 !.analyzeCalls = @ + 1]
  ELSE [S EXCEPT !.analysis = Analyze(S.analysisIssues),
                 !.confidence = CalculateConfidence(S.analysisIssues,
                                                    S.codeLength),
                 !.analyzeCalls = @ + 1]

\* the loop that sorts the issues into errors and warnings
IsError(sev) == sev = "critical" \/ sev = "high"

\* createSecureExecutionEnvironment that also refuses medium risk
CreateSecureExecutionEnvironmentStrict(issues) ==
  LET result == Analyze(issues)
      errors == SelectSeq(issues, IsError)
      warnings == SelectSeq(issues, LAMBDA s : ~IsError(s))
  IN [isSafe |-> ~(result.riskLevel \in {"critical", "medium"}
                     \/ (result.riskLevel = "high" /\ Len(errors) > 2)),
      riskLevel |-> result.riskLevel,
      warnings |-> Len(warnings), errors |-> Len(errors)]

\* createSecureExecutionEnvironment; warnings and errors are the lengths of
\* the two message lists
CreateSecureExecutionEnvironment(issues) ==
  LET result == Analyze(issues)
      errors == SelectSeq(issues, IsError)
      warnings == SelectSeq(issues, LAMBDA s : ~IsError(s))
  IN [isSafe |-> ~(result.riskLevel = "critical"
                     \/ (result.riskLevel = "high" /\ Len(errors) > 2)),
      riskLevel |-> result.riskLevel,
      warnings |-> Len(warnings), errors |-> Len(errors)]

\* RuntimeMonitoringLayer.stopExecution, up to its throw, as the dispatcher
\* sees it (the ledgers are followed in SpecMon)
MonitorStopExecution(S) ==
  [S EXCEPT !.monitoring = FALSE, !.blockedExecutions = @ + 1]

\* ------------------------------------------------ RuntimeMonitoringLayer
ViolationCap == 100
EventCap == 500

\* the default configuration
BlockedAPIs == {"eval", "Function", "document", "window", "localStorage",
                "sessionStorage", "XMLHttpRequest", "fetch", "require",
                "process", "global", "Buffer", "fs", "path"}

\* seq.slice(-n) that keeps the oldest n entries
KeepFirst(seq, n) ==
  IF Len(seq) > n THEN SubSeq(seq, 1, n) ELSE seq

\* if (seq.length > n) seq = seq.slice(-n)
KeepLast(seq, n) ==
  IF Len(seq) > n THEN SubSeq(seq, Len(seq) - n + 1, Len(seq)) ELSE seq

\* recordEvent
RecordEvent(S, type) ==
  [S EXCEPT !.events = KeepLast(Append(@, [type |-> type,
                                           n |-> S.eventsRecorded + 1]),
                                EventCap),
            !.eventsRecorded = @ + 1]

\* stopExecution: it always throws
BlockExecution(S) ==
  [RecordEvent(MonitorStopExecution(S), "block") EXCEPT !.monResult = "threw"]

\* recordViolation that stops the execution on high severity as well
RecordViolationEscalatesHigh(S, type, severity) ==
  LET S1 == [S EXCEPT !.violations =
                         KeepLast(Append(@, [type |-> type,
                                             severity |-> severity,
                                             n |-> S.violationsRecorded + 1]),
                                  ViolationCap),
                      !.violationsRecorded = @ + 1]
      S2 == RecordEvent(S1, "violation")
  IN IF severity \in {"critical", "high"} THEN BlockExecution(S2) ELSE S2

\* recordViolation
RecordViolation(S, type, severity) ==
  LET S1 == [S EXCEPT !.violations =
                         KeepLast(Append(@, [type |-> type,
                                             severity |-> severity,
                                             n |-> S.violationsRecorded + 1]),
                                  ViolationCap),
                      !.violationsRecorded = @ + 1]
      S2 == RecordEvent(S1, "violation")
  IN IF severity = "critical" THEN BlockExecution(S2) ELSE S2

\* a call that has not thrown returns r
Returns(S, r) ==
  IF S.monResult = "threw" THEN S ELSE [S EXCEPT !.monResult = r]

\* checkAPIAccess that refuses a blocked name without recording it
CheckAPIAccessSilent(S, apiName) ==
  IF apiName \notin BlockedAPIs
  THEN Returns(S, "true")
  ELSE Returns(S, "false")

\* checkAPIAccess
CheckAPIAccess(S, apiName) ==
  IF apiName \notin BlockedAPIs
  THEN Returns(S, "true")
  ELSE Returns(RecordViolation(S, "blocked_api", "high"), "false")

\* checkResourceLimits (enableResourceMonitoring is on by default); memOver:
\* the heap has grown past maxMemoryUsage since the baseline, stackOver: the
\* call stack is deeper than maxStackDepth
CheckResourceLimits(S, memOver, stackOver) ==
  IF memOver
  THEN Returns(RecordViolation(S, "memory_limit", "high"), "false")
  ELSE IF stackOver
       THEN Returns(RecordViolation(S, "stack_overflow", "critical"), "false")
       ELSE Returns(S, "true")

\* a timer of the monitor: its callback and the window that scheduled it
MTimer(kind, win) == [kind |-> kind, win |-> win]

\* checkMemory of the chain that window win started
CheckMemory(S, win, memOver, stackOver) ==
  IF ~S.monitoring
  THEN S
  ELSE LET R == CheckResourceLimits(S, memOver, stackOver)
       IN CASE R.monResult = "threw" -> R
            [] R.monResult = "false" -> BlockExecution(R)
            [] OTHER -> [R EXCEPT !.monResult = "none",
                                  !.mTimers = @ \cup {MTimer("memory", win)}]

\* checkStack of the chain that window win started
CheckStack(S, win, stackOver) ==
  IF ~S.monitoring
  THEN S
  ELSE IF stackOver
       THEN LET R == RecordViolation(S, "stack_overflow", "critical")
            IN IF R.monResult = "threw" THEN R ELSE BlockExecution(R)
       ELSE [S EXCEPT !.mTimers = @ \cup {MTimer("stack", win)}]

\* checkExecutionTimeout; late: more than maxExecutionTime has passed since
\* executionStartTime
CheckExecutionTimeout(S, late) ==
  IF ~S.monitoring
  THEN S
  ELSE IF late
       THEN LET R == RecordViolation(S, "timeout", "high")
            IN IF R.monResult = "threw" THEN R ELSE BlockExecution(R)
       ELSE S

\* startMonitoring.  The two first checks run inside the call; one sample of
\* the stack depth serves both.
StartMonitoring(S, memOver, stackOver) ==
  IF S.monitoring
  THEN S
  ELSE LET win == S.mWindow + 1
           S1 == [S EXCEPT !.monitoring = TRUE, !.mWindow = win,
                           !.mTimers = @ \cup {MTimer("timeout", win)}]
           S2 == CheckMemory(S1, win, memOver, stackOver)
           S3 == IF S2.monResult = "threw"
                 THEN S2 ELSE CheckStack(S2, win, stackOver)
       IN IF S3.monResult = "threw" THEN S3 ELSE RecordEvent(S3, "allow")

\* stopMonitoring (no timer is cancelled)
StopMonitoring(S) ==
  IF ~S.monitoring
  THEN S
  ELSE RecordEvent([S EXCEPT !.monitoring = FALSE], "allow")

\* ------------------------------------------------- SimpleSandboxManager
\* getStatus().isRunning
GetStatus(S) == S.executionId # Null

\* stopExecution that frees the manager's slot but does not write the sink
StopExecutionKeepsSink(S) ==
  IF S.executionId # Null
  THEN [S EXCEPT !.monitoring = FALSE,
                 !.timers = @ \ {S.timeoutId},
                 !.timeoutId = 0,
                 !.executionId = Null]
  ELSE S

\* stopExecution that updates the sink but keeps the manager's own slot
StopExecutionKeepsSlot(S) ==
  IF S.executionId # Null
  THEN [S EXCEPT !.monitoring = FALSE,
                 !.timers = @ \ {S.timeoutId},
                 !.timeoutId = 0,
                 !.isRunning = FALSE,
                 !.stExecutionId = Null]
  ELSE S

StopExecution(S) ==
  IF S.executionId # Null
  THEN [S EXCEPT !.monitoring = FALSE,
                 !.timers = @ \ {S.timeoutId},
                 !.timeoutId = 0,
                 !.isRunning = FALSE,
                 !.stExecutionId = Null,
                 !.executionId = Null]
  ELSE S

\* store.setExecutionState({isRunning: false, executionTime,
\*                          firstExecutionTime: first || executionTime})
RecordCompleted(S) ==
  [S EXCEPT !.isRunning = FALSE, !.executionTime = TRUE,
            !.firstExecutionTime = TRUE]

\* executeCode from "set the execution timeout" to its end (JS engine path)
RunJs(S, e, issues, prog) ==
  LET S1 == [S EXCEPT !.timeoutId = e, !.timers = @ \cup {e}]
      S2 == [S1 EXCEPT !.gateCalls[e] = @ + 1]
      sec == CreateSecureExecutionEnvironment(issues)
      W == AddOutputs(S2, sec.warnings, "warn", "security", "secWarning", e)
  IN IF ~sec.isSafe
     THEN LET S3 == AddOutputs(W, sec.errors, "error", "security",
                               "secError", e)
              S4 == [S3 EXCEPT !.monitoring = FALSE]
              S5 == AddOutput(S4, "error", "error", "blocked", e)
          IN StopExecution(S5)
     ELSE IF prog.outcome = "blockedAtStart" /\ ~W.monitoring
     THEN StopExecution(AddOutput(MonitorStopExecution(W), "error", "error",
                                  "monitorBlocked", e))
     ELSE LET S3 == [W EXCEPT !.monitoring = TRUE,
                              !.engineRuns[e] = @ + 1]
              S4 == AddOutputs(S3, prog.logs, "log", "console", "userLog", e)
          IN CASE prog.outcome \in {"ok", "blockedAtStart"} ->
                    StopExecution(RecordCompleted(S4))
               [] prog.outcome = "blockedCaught" ->
                    StopExecution(RecordCompleted(MonitorStopExecution(S4)))
               [] prog.outcome = "blockedInRun" ->
                    StopExecution(
                      AddOutput(MonitorStopExecution(S4), "error", "error",
                                "monitorBlocked", e))
               [] OTHER ->
                    StopExecution(
                      AddOutput([S4 EXCEPT !.monitoring = FALSE],
                                "error", "error", "runtimeError", e))

\* ------------------------------------------------------ PHPSandboxManager
PhpCleanupExecution(S) ==
  [S EXCEPT !.phpTimers = @ \ {S.phpTimeoutId},
            !.phpTimeoutId = 0,
            !.phpExecutionId = Null]

\* getStatus().isRunning
PhpGetStatus(S) == S.phpExecutionId # Null

PhpStopExecution(S) ==
  IF S.phpExecutionId # Null
  THEN AddOutput([S EXCEPT !.phpTimers = @ \ {S.phpTimeoutId},
                           !.phpTimeoutId = 0,
                           !.phpExecutionId = Null,
                           !.isRunning = FALSE,
                           !.stExecutionId = Null],
                 "info", "system", "phpStopped", S.phpExecutionId.n)
  ELSE S

\* the dispatcher's continuation after `await phpSandboxManager.executeCode`
AfterPhpReturn(S, e) ==
  [StopExecution(RecordCompleted(S)) EXCEPT !.dpc[e] = "done"]

AfterPhpThrow(S, e) ==
  [StopExecution(AddOutput(S, "error", "error", "phpFailed", e))
     EXCEPT !.dpc[e] = "done"]

\* PHPSandboxManager.executeCode up to its first await
PhpExecuteCode(S, e) ==
  IF S.isExecuting
  THEN AfterPhpReturn(AddOutput(S, "warn", "system", "phpBusy", e), e)
  ELSE [PhpStopExecution([S EXCEPT !.isExecuting = TRUE])
          EXCEPT !.ppc = "sleep50", !.pOwner = e, !.dpc[e] = "awaitPhp",
                 !.phpOutput = FALSE, !.phpErrors = FALSE]

\* attach the listeners, announce and call run()
PhpRunCall(S) ==
  [AddOutput(S, "info", "system", "phpExecuting", S.pOwner)
     EXCEPT !.phpRuns[S.pOwner] = @ + 1, !.ppc = "awaitRun"]

\* executeCode from "executionId = ..." to the next await
PhpStart(S) ==
  LET o == S.pOwner
      S1 == [S EXCEPT !.phpExecutionId = PhpId(o),
                      !.isRunning = TRUE,
                      !.stExecutionId = PhpId(o),
                      !.executionTime = FALSE]
      S2 == ClearOutputs(S1)
      S3 == [S2 EXCEPT !.phpTimeoutId = o, !.phpTimers = @ \cup {o}]
  IN IF ~S3.currentPhpInstance
     THEN [AddOutput(S3, "info", "system", "phpInit", o)
             EXCEPT !.currentPhpInstance = TRUE, !.ppc = "awaitReady"]
     ELSE PhpRunCall(S3)

\* outer catch / finally of executeCode, then the dispatcher's catch
PhpOuterCatch(S) ==
  LET S1 == AddOutput(S, "error", "error", "phpError", S.pOwner)
      S2 == PhpCleanupExecution(S1)
      S3 == [S2 EXCEPT !.isExecuting = FALSE, !.ppc = "idle"]
  IN AfterPhpThrow(S3, S.pOwner)

\* --------------------------------------------------- PythonSandboxManager
\* a message posted by worker w; id is the executionId it carries (Null when
\* it carries none), k the call whose run or bootstrap produced it
Msg(type, id, err, w, k) ==
  [type |-> type, id |-> id, err |-> err, w |-> w, k |-> k]

\* the PACKAGE_LOADED message of worker w
PackageLoaded(name, w) ==
  [type |-> "PACKAGE_LOADED", id |-> Null, err |-> "", w |-> w, k |-> 0,
   name |-> name]

\* terminate() kills the worker and its runs.  Messages the worker has
\* already posted are delivered or not, as the host decides: keep.
TerminateWorker(S, keep) ==
  LET w == S.worker
  IN IF w = 0
     THEN [S EXCEPT !.isInitialized = FALSE, !.resolveReady = 0]
     ELSE [S EXCEPT !.wState[w] = "dead",
                    !.wrun = [k \in PyAttempts |->
                                IF S.wOf[k] = w /\ S.wrun[k] # "none"
                                THEN "over" ELSE S.wrun[k]],
                    !.toMain = IF keep THEN @
                               ELSE SelectSeq(@, LAMBDA m : m.w # w),
                    !.toWorker = <<>>,
                    !.loadsPending = [name \in DOMAIN @ |-> 0],
                    !.worker = 0,
                    !.isInitialized = FALSE,
                    !.resolveReady = 0]

PyCleanupExecution(S) ==
  [S EXCEPT !.pyTimers = @ \ {S.pyTimeoutId},
            !.pyTimeoutId = 0,
            !.pyExecutionId = Null,
            !.isRunning = FALSE,
            !.stExecutionId = Null]

\* getStatus().isRunning
PyGetStatus(S) == S.pyExecutionId # Null

PyStopExecution(S, keep) ==
  IF S.pyExecutionId # Null
  THEN AddOutput(PyCleanupExecution(TerminateWorker(S, keep)),
                 "info", "system", "pyStopped", S.pyExecutionId.n)
  ELSE S

\* executeCode from "executionId = ..." to its end, finally included
PyDispatch(S, k, code) ==
  LET S1 == [S EXCEPT !.pyExecutionId = PyId(k),
                      !.isRunning = TRUE,
                      !.stExecutionId = PyId(k),
                      !.executionTime = FALSE]
      S2 == ClearOutputs(S1)
      S3 == [S2 EXCEPT !.pyTimeoutId = k, !.pyTimers = @ \cup {k}]
      S4 == CASE code = "empty" ->
                   PyCleanupExecution(
                     AddOutput(S3, "error", "error", "pyEmptyCode", k))
              [] code = "unclosed" ->
                   PyCleanupExecution(
                     AddOutput(S3, "error", "error", "pyUnclosedQuotes", k))
              [] OTHER ->
                   LET S5 == AddOutput(S3, "info", "system", "pyExecuting", k)
                   IN IF S5.worker # 0
                      THEN [S5 EXCEPT !.wrun[k] = "queued",
                                      !.wOf[k] = S5.worker]
                      ELSE S5
  IN [S4 EXCEPT !.pyIsExecuting = FALSE, !.pypc[k] = "returned"]

\* executeCode up to its first await (or to its end)
PyExecuteCodeBody(S, k, code, keep) ==
  IF S.pyIsExecuting
  THEN [AddOutput(S, "warn", "system", "pyBusy", k)
          EXCEPT !.pypc[k] = "absorbed"]
  ELSE LET S1 == PyStopExecution([S EXCEPT !.pyIsExecuting = TRUE,
                                            !.pcode[k] = code], keep)
       IN IF ~S1.isInitialized
          THEN [S1 EXCEPT !.pypc[k] = "awaitResources"]
          ELSE PyDispatch(S1, k, code)

\* the text of an ERROR message as the manager prints it
ErrorText(err) ==
  CASE err = "timeout" -> "pyErrorTimeout"
    [] err = "notReady" -> "pyErrorNotReady"
    [] err = "boot" -> "pyErrorBoot"
    [] OTHER -> "pyErrorRuntime"

\* worker.onmessage
OnMessage(S, m) ==
  CASE m.type = "READY" ->
         LET r == S.resolveReady
             S1 == AddOutput([S EXCEPT !.isInitialized = TRUE],
                             "info", "system", "pyInitDone", m.k)
             S2 == [S1 EXCEPT !.resolveReady = 0]
         IN IF r # 0 /\ S.pypc[r] = "awaitReady"
            THEN PyDispatch(S2, r, S.pcode[r])
            ELSE S2
    [] m.type = "OUTPUT" ->
         AddOutput(S, m.err, IF m.err = "error" THEN "error" ELSE "console",
                   "pyOutput", m.k)
    [] m.type = "RESULT" ->
         IF m.id = S.pyExecutionId
         THEN AddOutput(S, "log", "console", "pyResult", m.k)
         ELSE S
    [] m.type = "ERROR" ->
         LET S1 == AddOutput(S, "error", "error", ErrorText(m.err), m.k)
         IN IF m.id = Null \/ m.id = S.pyExecutionId
            THEN PyCleanupExecution(S1)
            ELSE S1
    [] m.type = "PACKAGE_LOADED" ->
         AddOutput([S EXCEPT !.loadedPackages = @ \cup {m.name}],
                   "info", "system", "pyPackageLoaded", m.k)
    [] OTHER ->
         IF m.id = S.pyExecutionId
         THEN PyCleanupExecution(
                AddOutput(S, "info", "system", "pyComplete", m.k))
         ELSE S

\* ---------------------------------------------------------------- Init
\* package names a load request may carry
Packages == {"numpy", "pandas"}

\* the state after construction; handle is the worker the Python manager
\* holds, issues the list the analyzer's patterns find in the code and
\* length the length of the code
InitWith(handle, issues, length) ==
  /\ executionId = Null
  /\ timeoutId = 0
  /\ timers = {}
  /\ dpc = [e \in Attempts |-> "none"]
  /\ calls = 0
  /\ languageOf = [e \in Attempts |-> "none"]
  /\ isRunning = FALSE
  /\ stExecutionId = Null
  /\ executionTime = FALSE
  /\ firstExecutionTime = FALSE
  /\ isCompiling = FALSE
  /\ outputs = <<>>
  /\ monitoring = FALSE
  /\ blockedExecutions = 0
  /\ gateCalls = [e \in Attempts |-> 0]
  /\ engineRuns = [e \in Attempts |-> 0]
  /\ phpRuns = [e \in Attempts |-> 0]
  /\ phpExecutionId = Null
  /\ phpTimeoutId = 0
  /\ phpTimers = {}
  /\ isExecuting = FALSE
  /\ currentPhpInstance = FALSE
  /\ PhpWebClass = FALSE
  /\ ppc = "idle"
  /\ pOwner = 0
  /\ phpOutput = FALSE
  /\ phpErrors = FALSE
  /\ pyExecutionId = Null
  /\ pyTimeoutId = 0
  /\ pyTimers = {}
  /\ pyIsExecuting = FALSE
  /\ isInitialized = FALSE
  /\ worker = handle
  /\ resolveReady = 0
  /\ pypc = [k \in PyAttempts |-> "none"]
  /\ pcode = [k \in PyAttempts |-> "none"]
  /\ pcalls = 0
  /\ wState = [w \in PyAttempts |-> "none"]
  /\ wrun = [k \in PyAttempts |-> "none"]
  /\ wOf = [k \in PyAttempts |-> 0]
  /\ toMain = <<>>
  /\ violations = <<>>
  /\ events = <<>>
  /\ violationsRecorded = 0
  /\ eventsRecorded = 0
  /\ mTimers = {}
  /\ mWindow = 0
  /\ monResult = "none"
  /\ isReady = FALSE
  /\ pyodide = FALSE
  /\ inits = 0
  /\ bootImport = 0
  /\ bootLoad = 0
  /\ toWorker = <<>>
  /\ loaderCalls = [p \in Packages |-> 0]
  /\ loadsPending = [p \in Packages |-> 0]
  /\ loadRequests = 0
  /\ loadedPackages = {}
  /\ analysisIssues = issues
  /\ analysis = [safe |-> TRUE, riskLevel |-> "none"]
  /\ environment = [isSafe |-> TRUE, riskLevel |-> "none", warnings |-> 0,
                    errors |-> 0]
  /\ isEnabled = TRUE
  /\ codeLength = length
  /\ confidence = [num |-> 1, den |-> 1]
  /\ analyzeCalls = 0
  /\ terminated = FALSE
  /\ execFlagged = [k \in PyAttempts |-> FALSE]

Init == InitWith(0, <<>>, 0)

\* ------------------------------------------------------------- actions
\* ExecuteCodeBody with the single-flight guard reading the sink's running
\* flag in place of the manager's own executionId
ExecuteCodeBodyGuardOnSink(S, e, language, issues, prog) ==
  IF S.isRunning
  THEN [S EXCEPT !.dpc[e] = "rejected"]
  ELSE LET S1 == [S EXCEPT !.executionId = ExecId(e),
                           !.languageOf[e] = language,
                           !.isRunning = TRUE,
                           !.stExecutionId = ExecId(e),
                           !.executionTime = FALSE]
           S2 == ClearOutputs(S1)
       IN CASE language = "php" -> PhpExecuteCode(S2, e)
            [] language = "typescript" ->
                 [AddOutput(S2, "info", "console", "compiling", e)
                    EXCEPT !.isCompiling = TRUE, !.dpc[e] = "awaitCompile"]
            [] OTHER ->
                 [RunJs(S2, e, issues, prog) EXCEPT !.dpc[e] = "done"]

\* SimpleSandboxManager.executeCode, up to its first await (or to its end)
ExecuteCodeBody(S, e, language, issues, prog) ==
  IF S.executionId # Null
  THEN [S EXCEPT !.dpc[e] = "rejected"]
  ELSE LET S1 == [S EXCEPT !.executionId = ExecId(e),
                           !.languageOf[e] = language,
                           !.isRunning = TRUE,
                           !.stExecutionId = ExecId(e),
                           !.executionTime = FALSE]
           S2 == ClearOutputs(S1)
       IN CASE language = "php" -> PhpExecuteCode(S2, e)
            [] language = "typescript" ->
                 [AddOutput(S2, "info", "console", "compiling", e)
                    EXCEPT !.isCompiling = TRUE, !.dpc[e] = "awaitCompile"]
            [] OTHER ->
                 [RunJs(S2, e, issues, prog) EXCEPT !.dpc[e] = "done"]

\* the language tags the page offers, all handed to executeCode by handleRun
Languages == {"javascript", "typescript", "php", "python"}

ExecuteCode ==
  /\ calls < MaxCalls
  /\ \E language \in Languages,
        issues \in GateInputs, prog \in JsPrograms :
       Commit(ExecuteCodeBody([Cur EXCEPT !.calls = @ + 1], calls + 1,
                              language, issues, prog))

\* CompileSettle that treats a failed compilation like a successful one
CompileSettleIgnoresFailure ==
  \E e \in Attempts, result \in {"ok", "warnings", "failed", "throw"},
     issues \in GateInputs, prog \in JsPrograms :
    /\ dpc[e] = "awaitCompile"
    /\ LET S1 == [Cur EXCEPT !.isCompiling = FALSE]
           S2 == CASE result = "warnings" ->
                        AddOutput(S1, "warn", "console", "compileWarning", e)
                   [] result = "failed" ->
                        AddOutput(S1, "error", "error", "compileError", e)
                   [] result = "throw" ->
                        AddOutput(S1, "error", "error", "compileThrew", e)
                   [] OTHER -> S1
       IN Commit([RunJs(S2, e, issues, prog) EXCEPT !.dpc[e] = "done"])

\* the compile promise settles and executeCode resumes
CompileSettle ==
  \E e \in Attempts, result \in {"ok", "warnings", "failed", "throw"},
     issues \in GateInputs, prog \in JsPrograms :
    /\ dpc[e] = "awaitCompile"
    /\ LET S == Cur
       IN CASE result = "throw" ->
                 Commit([StopExecution(
                           AddOutput(S, "error", "error", "compileThrew", e))
                           EXCEPT !.dpc[e] = "done"])
            [] result = "failed" ->
                 Commit([StopExecution(
                           AddOutput([S EXCEPT !.isCompiling = FALSE],
                                     "error", "error", "compileError", e))
                           EXCEPT !.dpc[e] = "done"])
            [] OTHER ->
                 LET S1 == [S EXCEPT !.isCompiling = FALSE]
                     S2 == IF result = "warnings"
                           THEN AddOutput(S1, "warn", "console",
                                          "compileWarning", e)
                           ELSE S1
                     S3 == AddOutput(S2, "info", "console", "compiled", e)
                 IN Commit([RunJs(S3, e, issues, prog)
                              EXCEPT !.dpc[e] = "done"])

\* the user presses Stop: simpleSandboxManager.stopExecution()
Stop == Commit(StopExecution(Cur))

\* the dispatcher's watchdog fires
Watchdog ==
  \E h \in timers :
    Commit(StopExecution(
             AddOutput([Cur EXCEPT !.timers = @ \ {h}],
                       "error", "timeout", "timeout", h)))

\* the 50 ms pause ends; initialize() either returns at once or imports
PhpSleepDone ==
  /\ ppc = "sleep50"
  /\ IF PhpWebClass THEN Commit(PhpStart(Cur))
     ELSE Commit([Cur EXCEPT !.ppc = "import"])

\* the dynamic import of the PHP engine settles
PhpImportSettle ==
  /\ ppc = "import"
  /\ \E ok \in BOOLEAN :
       IF ok THEN Commit(PhpStart([Cur EXCEPT !.PhpWebClass = TRUE]))
       ELSE Commit(PhpOuterCatch(
                     AddOutput(Cur, "error", "error", "phpLoadFailed",
                               pOwner)))

\* the new engine instance reports ready / error, or the 15 s timer fires
PhpReadySettle ==
  /\ ppc = "awaitReady"
  /\ \E ok \in BOOLEAN :
       IF ok
       THEN Commit(PhpRunCall(
                     AddOutput(Cur, "info", "system", "phpInitDone", pOwner)))
       ELSE Commit(PhpOuterCatch(Cur))

\* the engine raises an 'output' or an 'error' event (with non-blank text)
\* while run() is pending
PhpEngineEvent ==
  /\ ppc = "awaitRun"
  /\ Len(outputs) < MaxOut
  /\ \E kind \in {"output", "error"} :
       IF kind = "output"
       THEN Commit([AddOutput(Cur, "log", "console", "phpOutput", pOwner)
                      EXCEPT !.phpOutput = TRUE])
       ELSE Commit([AddOutput(Cur, "error", "error", "phpStderr", pOwner)
                      EXCEPT !.phpErrors = TRUE])

\* run() settles
PhpRunSettle ==
  /\ ppc = "awaitRun"
  /\ \E res \in {"zero", "nonzero", "throw"} :
       LET S == Cur
           o == pOwner
           S1 == CASE res = "throw" ->
                        AddOutput(S, "error", "error", "phpRunError", o)
                   [] res = "zero" /\ ~S.phpOutput /\ ~S.phpErrors ->
                        AddOutput(S, "info", "system", "phpDoneNoOutput", o)
                   [] res = "zero" ->
                        AddOutput(S, "info", "system", "phpDone", o)
                   [] OTHER ->
                        AddOutput(S, "error", "error", "phpReturnCode", o)
       IN Commit([S1 EXCEPT !.ppc = "sleep100"])

\* the 100 ms pause ends: cleanup, finally, and the dispatcher resumes
PhpFinish ==
  /\ ppc = "sleep100"
  /\ Commit(AfterPhpReturn(
              [PhpCleanupExecution(Cur) EXCEPT !.isExecuting = FALSE,
                                               !.ppc = "idle"],
              pOwner))

\* the PHP manager's watchdog fires
PhpWatchdog ==
  \E h \in phpTimers :
    Commit(PhpStopExecution(
             AddOutput([Cur EXCEPT !.phpTimers = @ \ {h}],
                       "error", "timeout", "phpTimeout", h)))

Next ==
  \/ ExecuteCode
  \/ CompileSettle
  \/ Stop
  \/ Watchdog
  \/ PhpSleepDone
  \/ PhpImportSettle
  \/ PhpReadySettle
  \/ PhpEngineEvent
  \/ PhpRunSettle
  \/ PhpFinish
  \/ PhpWatchdog

Spec == Init /\ [][Next]_vars

\* ------------------------------------------------------- Python actions
\* PythonSandboxManager.executeCode is called
PyExecuteCode ==
  /\ pcalls < MaxPyCalls
  /\ \E code \in {"ok", "empty", "unclosed"}, keep \in BOOLEAN :
       Commit(PyExecuteCodeBody([Cur EXCEPT !.pcalls = @ + 1], pcalls + 1,
                                code, keep))

\* initialize(): the resource check settles; on success the worker is
\* created and INIT is posted to it
PyResourcesSettle ==
  \E k \in PyAttempts, ok \in BOOLEAN :
    /\ pypc[k] = "awaitResources"
    /\ IF ok
       THEN Commit([AddOutput(Cur, "info", "system", "pyInit", k)
                      EXCEPT !.worker = k, !.wState[k] = "boot",
                             !.resolveReady = k, !.pypc[k] = "awaitReady"])
       ELSE Commit([PyCleanupExecution(
                      AddOutput(AddOutput(Cur, "error", "error",
                                          "pyNoResources", k),
                                "error", "error", "pyThrown", k))
                      EXCEPT !.pyIsExecuting = FALSE, !.pypc[k] = "threw"])

\* the manager's onmessage handler takes the next message
PyReceive ==
  /\ toMain # <<>>
  /\ Commit(OnMessage([Cur EXCEPT !.toMain = Tail(@)], Head(toMain)))

\* the manager's watchdog fires
PyWatchdog ==
  \E h \in pyTimers, keep \in BOOLEAN :
    Commit(PyCleanupExecution(
             TerminateWorker(
               AddOutput([Cur EXCEPT !.pyTimers = @ \ {h}],
                         "error", "timeout", "pyTimeout", h),
               keep)))

\* pythonSandboxManager.stopExecution()
PyStop ==
  \E keep \in BOOLEAN : Commit(PyStopExecution(Cur, keep))

\* worker: initializePyodide settles
WorkerBoot ==
  \E w \in PyAttempts, ok \in BOOLEAN :
    /\ wState[w] = "boot"
    /\ IF ok
       THEN Commit([Cur EXCEPT !.wState[w] = "ready",
                               !.toMain = Append(@, Msg("READY", Null, "",
                                                        w, w))])
       ELSE Commit([Cur EXCEPT !.wState[w] = "failed",
                               !.toMain = Append(@, Msg("ERROR", Null, "boot",
                                                        w, w))])

\* worker: the EXECUTE message is received
WorkerExecute ==
  \E k \in PyAttempts :
    /\ wrun[k] = "queued"
    /\ IF wState[wOf[k]] = "ready"
       THEN Commit([Cur EXCEPT !.wrun[k] = "racing"])
       ELSE Commit([Cur EXCEPT !.wrun[k] = "over",
                               !.toMain = Append(@, Msg("ERROR", PyId(k),
                                                        "notReady", wOf[k],
                                                        k))])

\* worker: the user program prints
WorkerOutput ==
  \E k \in PyAttempts, kind \in {"log", "error"} :
    /\ wrun[k] \in {"racing", "background"}
    /\ Len(toMain) < MaxQueue
    /\ Len(outputs) < MaxOut
    /\ Commit([Cur EXCEPT !.toMain = Append(@, Msg("OUTPUT", Null, kind,
                                                   wOf[k], k))])

\* executeCode of the worker after runPythonAsync has settled, that posts
\* although the race was lost to the timer
WorkerRunSettleBodyLate(S, k, res) ==
  LET w == S.wOf[k]
      posted ==
        CASE S.terminated -> <<>>
          [] res = "value" -> <<Msg("RESULT", PyId(k), "", w, k),
                                Msg("COMPLETE", PyId(k), "", w, k)>>
          [] res = "none" -> <<Msg("COMPLETE", PyId(k), "", w, k)>>
          [] OTHER -> <<Msg("ERROR", PyId(k), "runtime", w, k)>>
  IN [S EXCEPT !.wrun[k] = "over", !.toMain = @ \o posted]

\* executeCode of the worker after runPythonAsync has settled: with the
\* evaluated value, with None or undefined, or rejected.  A run that lost
\* the race to the timer is awaited by nobody.
WorkerRunSettleBody(S, k, res) ==
  LET w == S.wOf[k]
      posted ==
        CASE S.wrun[k] = "background" -> <<>>
          [] S.terminated -> <<>>
          [] res = "value" -> <<Msg("RESULT", PyId(k), "", w, k),
                                Msg("COMPLETE", PyId(k), "", w, k)>>
          [] res = "none" -> <<Msg("COMPLETE", PyId(k), "", w, k)>>
          [] OTHER -> <<Msg("ERROR", PyId(k), "runtime", w, k)>>
  IN [S EXCEPT !.wrun[k] = "over", !.toMain = @ \o posted]

\* worker: runPythonAsync settles
WorkerRunSettle ==
  \E k \in PyAttempts, res \in {"value", "none", "reject"} :
    /\ wrun[k] \in {"racing", "running", "background"}
    /\ Commit(WorkerRunSettleBody(Cur, k, res))

\* executeCode of the worker after the timer has rejected the race
WorkerRaceTimeoutBody(S, k) ==
  [S EXCEPT !.wrun[k] = "background",
            !.toMain = IF S.terminated
                       THEN @
                       ELSE Append(@, Msg("ERROR", PyId(k), "timeout",
                                          S.wOf[k], k))]

\* worker: the race timer armed with timeoutMs wins
WorkerRaceTimeout ==
  \E k \in PyAttempts :
    /\ wrun[k] = "racing"
    /\ Commit(WorkerRaceTimeoutBody(Cur, k))

NextPy ==
  \/ PyExecuteCode
  \/ PyResourcesSettle
  \/ PyReceive
  \/ PyWatchdog
  \/ PyStop
  \/ WorkerBoot
  \/ WorkerExecute
  \/ WorkerOutput
  \/ WorkerRunSettle
  \/ WorkerRaceTimeout

SpecPy == Init /\ [][NextPy]_vars

\* Every promise the manager or a worker awaits settles and every posted
\* message and armed timer is eventually handled; calls and stops come
\* when the caller pleases.
SpecPyFair ==
  /\ SpecPy
  /\ WF_vars(PyResourcesSettle)
  /\ WF_vars(PyReceive)
  /\ WF_vars(PyWatchdog)
  /\ WF_vars(WorkerBoot)
  /\ WF_vars(WorkerExecute)
  /\ WF_vars(WorkerRunSettle)

\* destroy()
PyDestroyBody(S, keep) ==
  [TerminateWorker(PyStopExecution(S, keep), keep)
     EXCEPT !.isInitialized = FALSE, !.pyIsExecuting = FALSE]

\* pythonSandboxManager.destroy()
PyDestroy ==
  \E keep \in BOOLEAN : Commit(PyDestroyBody(Cur, keep))

\* the manager's whole API: the calls of NextPy and destroy()
NextPyDestroy ==
  \/ NextPy
  \/ PyDestroy

SpecPyDestroy == Init /\ [][NextPyDestroy]_vars

\* ------------------------------------------------------- both entry points
\* A session drives one entry point: the page's dispatcher, or the Python
\* manager through its own API (the page never calls it).
NextAll ==
  \/ pcalls = 0 /\ Next
  \/ calls = 0 /\ NextPy

SpecAll == Init /\ [][NextAll]_vars

\* --------------------------------------- one worker context, by message
\* The worker context the manager holds, followed through its module
\* variables isReady and pyodide in place of the summary wState: INIT
\* messages reach it in any number and at any time, each initializePyodide
\* call waits for import('pyodide') and then for loadPyodide(), and package
\* loads pass through it.  The manager's side of the channel is PyReceive.

\* initializePyodide up to its first await
InitializePyodide(S) ==
  IF S.isReady THEN S ELSE [S EXCEPT !.bootImport = @ + 1]

\* self.onmessage, INIT
WorkerInit ==
  /\ inits < MaxInits
  /\ Commit(InitializePyodide([Cur EXCEPT !.inits = @ + 1,
                                          !.terminated = FALSE]))

\* import('pyodide') settles for one bootstrap
WorkerImportSettle ==
  \E ok \in BOOLEAN :
    /\ bootImport > 0
    /\ IF ok
       THEN Commit([Cur EXCEPT !.bootImport = @ - 1, !.bootLoad = @ + 1])
       ELSE Commit([Cur EXCEPT !.bootImport = @ - 1,
                               !.toMain = Append(@, Msg("ERROR", Null, "boot",
                                                        worker, 0))])

\* loadPyodide() settles for one bootstrap; the rest of initializePyodide
\* is synchronous: the setup script runs, isReady is set and READY posted
WorkerLoadPyodideSettle ==
  \E outcome \in {"ok", "setupThrows", "rejects"} :
    /\ bootLoad > 0
    /\ CASE outcome = "ok" ->
              Commit([Cur EXCEPT !.bootLoad = @ - 1, !.pyodide = TRUE,
                                 !.isReady = TRUE,
                                 !.toMain = Append(@, Msg("READY", Null, "",
                                                          worker, 0))])
         [] outcome = "setupThrows" ->
              Commit([Cur EXCEPT !.bootLoad = @ - 1, !.pyodide = TRUE,
                                 !.toMain = Append(@, Msg("ERROR", Null,
                                                          "boot", worker, 0))])
         [] OTHER ->
              Commit([Cur EXCEPT !.bootLoad = @ - 1,
                                 !.toMain = Append(@, Msg("ERROR", Null,
                                                          "boot", worker, 0))])

\* PythonSandboxManager.loadPackage (it throws when there is no worker)
LoadPackageBody(S, name) ==
  IF S.worker = 0
  THEN S
  ELSE [AddOutput(S, "info", "system", "pyLoadingPackage", 0)
          EXCEPT !.toWorker = Append(@, name)]

LoadPackage ==
  \E name \in Packages :
    /\ loadRequests < MaxLoads
    /\ Commit(LoadPackageBody([Cur EXCEPT !.loadRequests = @ + 1], name))

\* PythonSandboxManager.loadScientificPackage.  Every name of Packages is
\* on the allowed list.  The manager's own pyodide field is never assigned
\* (the interpreter lives in the worker), so the load it attempts throws on
\* the null reference and the catch prints the failure.
LoadScientificPackage ==
  \E name \in Packages :
    /\ loadRequests < MaxLoads
    /\ IF name \in loadedPackages
       THEN Commit([Cur EXCEPT !.loadRequests = @ + 1])
       ELSE Commit(AddOutput(
                     AddOutput([Cur EXCEPT !.loadRequests = @ + 1],
                               "info", "system", "pyLoadingPackage", 0),
                     "error", "error", "pyPackageFailed", 0))

\* the worker's pyodide is set: in the module variable, or in the summary
\* wState where that stands for it
HasPyodide(S) ==
  S.pyodide \/ (S.worker # 0 /\ S.wState[S.worker] = "ready")

\* self.onmessage, LOAD_PACKAGE: up to the await of pyodide.loadPackage
WorkerLoadPackage ==
  /\ toWorker # <<>>
  /\ LET name == Head(toWorker)
         S == [Cur EXCEPT !.toWorker = Tail(@)]
     IN IF ~HasPyodide(Cur)
        THEN Commit([S EXCEPT !.toMain = Append(@, Msg("ERROR", Null,
                                                       "notReady", worker,
                                                       0))])
        ELSE Commit([S EXCEPT !.loaderCalls[name] = @ + 1,
                              !.loadsPending[name] = @ + 1])

\* pyodide.loadPackage settles
WorkerPackageSettle ==
  \E name \in Packages, ok \in BOOLEAN :
    /\ loadsPending[name] > 0
    /\ IF ok
       THEN Commit([Cur EXCEPT !.loadsPending[name] = @ - 1,
                               !.toMain = Append(@, PackageLoaded(name,
                                                                  worker))])
       ELSE Commit([Cur EXCEPT !.loadsPending[name] = @ - 1,
                               !.toMain = Append(@, Msg("ERROR", Null,
                                                        "package", worker,
                                                        0))])

NextWorker ==
  \/ WorkerInit
  \/ WorkerImportSettle
  \/ WorkerLoadPyodideSettle
  \/ LoadPackage
  \/ LoadScientificPackage
  \/ WorkerLoadPackage
  \/ WorkerPackageSettle
  \/ PyReceive

\* the manager holds worker 1, as after initialize() has created it
InitWorker == InitWith(1, <<>>, 0)

SpecWorker == InitWorker /\ [][NextWorker]_vars

\* ------------------------------------- one worker context and its runs
\* The same worker context receiving INIT, EXECUTE and STOP in any order.
\* Nothing is taken off toMain here: it holds every message the worker has
\* posted, in order.

\* executeCode of the worker up to its await; timed: timeoutMs is supplied
\* and positive ("running": the run is awaited without a timer)
WorkerExecuteCodeBody(S, k, timed) ==
  LET S1 == [S EXCEPT !.wOf[k] = S.worker, !.execFlagged[k] = S.terminated]
  IN IF ~S.isReady \/ ~S.pyodide
     THEN [S1 EXCEPT !.wrun[k] = "over",
                     !.toMain = Append(@, Msg("ERROR", PyId(k), "notReady",
                                              S.worker, k))]
     ELSE [S1 EXCEPT !.wrun[k] = IF timed THEN "racing" ELSE "running"]

\* self.onmessage, EXECUTE
WorkerExecuteMessage ==
  \E k \in PyAttempts, timed \in BOOLEAN :
    /\ wrun[k] = "none"
    /\ \A j \in PyAttempts : j < k => wrun[j] # "none"
    /\ Commit(WorkerExecuteCodeBody(Cur, k, timed))

\* self.onmessage, STOP
WorkerStop ==
  /\ ~terminated
  /\ Commit([Cur EXCEPT !.terminated = TRUE])

NextWorkerRun ==
  \/ WorkerInit
  \/ WorkerImportSettle
  \/ WorkerLoadPyodideSettle
  \/ WorkerExecuteMessage
  \/ WorkerRunSettle
  \/ WorkerRaceTimeout
  \/ WorkerStop

SpecWorkerRun == InitWorker /\ [][NextWorkerRun]_vars

\* ------------------------------------- executions and package loads
\* The Python manager running code while packages are loaded into its
\* worker: calls to executeCode and loadPackage, the worker's bootstrap,
\* runs and loads, and the manager's message handler.
NextPyLoad ==
  \/ PyExecuteCode
  \/ PyResourcesSettle
  \/ PyReceive
  \/ WorkerBoot
  \/ WorkerExecute
  \/ WorkerRunSettle
  \/ LoadPackage
  \/ WorkerLoadPackage
  \/ WorkerPackageSettle

SpecPyLoad == Init /\ [][NextPyLoad]_vars

\* ------------------------------------------------------ the monitor
\* The runtime monitor on its own: its public calls come in any order and
\* its timers fire at any time.
MaxMonEvents == 3  \* audit events recorded up to which calls are made

APINames == {"eval", "fetch", "console"}
ViolationTypes == {"blocked_api", "stack_overflow"}
Severities == {"low", "medium", "high", "critical"}

\* a call on the monitor starts
Call == [Cur EXCEPT !.monResult = "none"]

StartMonitoringCall ==
  \E memOver \in BOOLEAN, stackOver \in BOOLEAN :
    /\ eventsRecorded < MaxMonEvents
    /\ Commit(Returns(StartMonitoring(Call, memOver, stackOver), "void"))

StopMonitoringCall ==
  /\ eventsRecorded < MaxMonEvents
  /\ Commit(Returns(StopMonitoring(Call), "void"))

CheckAPIAccessCall ==
  \E apiName \in APINames :
    /\ eventsRecorded < MaxMonEvents
    /\ Commit(CheckAPIAccess(Call, apiName))

CheckResourceLimitsCall ==
  \E memOver \in BOOLEAN, stackOver \in BOOLEAN :
    /\ eventsRecorded < MaxMonEvents
    /\ Commit(CheckResourceLimits(Call, memOver, stackOver))

RecordViolationCall ==
  \E type \in ViolationTypes, severity \in Severities :
    /\ eventsRecorded < MaxMonEvents
    /\ Commit(Returns(RecordViolation(Call, type, severity), "void"))

\* the body of timer t, once t has been taken off the pending timers
TimerBody(S, t, a, b) ==
  CASE t.kind = "timeout" -> CheckExecutionTimeout(S, a)
    [] t.kind = "memory" -> CheckMemory(S, t.win, a, b)
    [] OTHER -> CheckStack(S, t.win, b)

\* a timer of the monitor fires
MonitorTimer ==
  \E t \in mTimers, a \in BOOLEAN, b \in BOOLEAN :
    Commit(TimerBody([Call EXCEPT !.mTimers = @ \ {t}], t, a, b))

NextMon ==
  \/ StartMonitoringCall
  \/ StopMonitoringCall
  \/ CheckAPIAccessCall
  \/ CheckResourceLimitsCall
  \/ RecordViolationCall
  \/ MonitorTimer

SpecMon == Init /\ [][NextMon]_vars

\* ------------------------------------------------- the ledgers, filled
\* recordViolation and recordEvent called over and over, in any order,
\* until each ledger has overflowed its cap.
MaxOver == 2       \* entries recorded beyond the cap of a ledger

RecordViolationFill ==
  /\ violationsRecorded < ViolationCap + MaxOver
  /\ eventsRecorded < EventCap + MaxOver
  /\ Commit(Returns(RecordViolation(Call, "blocked_api", "high"), "void"))

RecordEventFill ==
  /\ eventsRecorded < EventCap + MaxOver
  /\ Commit(Returns(RecordEvent(Call, "violation"), "void"))

NextLedger ==
  \/ RecordViolationFill
  \/ RecordEventFill

SpecLedger == Init /\ [][NextLedger]_vars

\* ------------------------------------------------------------ the gate
\* The analyzer and the gate applied to a piece of code, which is given by
\* the severities of the issues its patterns raise, in order.
MaxIssues == 4     \* issues found in one piece of code

IssueLists == UNION {[1..n -> Severities] : n \in 0..MaxIssues}

\* securityManager.analyzeCode(code)
AnalyzeCode ==
  /\ analysis.riskLevel = "none"
  /\ Commit(AnalyzeCodeBody(Cur))

\* securityManager.createSecureExecutionEnvironment(code)
CreateEnvironment ==
  /\ environment.riskLevel = "none"
  /\ Commit([Cur EXCEPT !.environment =
                          CreateSecureExecutionEnvironment(analysisIssues)])

NextGate ==
  \/ AnalyzeCode
  \/ CreateEnvironment

InitGate == \E issues \in IssueLists : InitWith(0, issues, 0)

SpecGate == InitGate /\ [][NextGate]_vars

\* -------------------------------------------------------- the analyzer
\* The analyzer applied to a piece of code and applied again after text
\* has been appended to it.  Appended text takes no match away (no pattern
\* is anchored, the counts and the nesting depth only grow): it adds an
\* issue somewhere in the list, or none when its patterns had matched.
MaxFound == 19     \* issues of one severity found in one piece of code

CodeLengths == {0, 100, 101, 200, 1000, 2000}

\* n issues of one severity
FoundLists == {[i \in 1..n |-> sev] : n \in 0..MaxFound, sev \in Severities}

InsertAt(seq, pos, x) ==
  SubSeq(seq, 1, pos) \o <<x>> \o SubSeq(seq, pos + 1, Len(seq))

\* securityManager.analyzeCode(code + more)
AnalyzeLongerCode ==
  \E length \in CodeLengths, pos \in 0..Len(analysisIssues),
     sev \in Severities, found \in BOOLEAN :
    /\ analysis.riskLevel # "none"
    /\ Len(analysisIssues) < MaxIssues
    /\ length > codeLength
    /\ Commit(AnalyzeCodeBody(
                [Cur EXCEPT !.codeLength = length,
                            !.analysisIssues =
                               IF found THEN InsertAt(@, pos, sev) ELSE @]))

NextAnalyzer ==
  \/ AnalyzeCode
  \/ AnalyzeLongerCode

InitAnalyzer ==
  \E issues \in IssueLists \cup FoundLists, length \in CodeLengths :
    InitWith(0, issues, length)

SpecAnalyzer == InitAnalyzer /\ [][NextAnalyzer]_vars

\* ------------------------------------------------- the coordinator
\* The SecurityManager in front of its analyzer and its monitor: its public
\* calls come in any order, and the monitor's timers fire at any time.
MaxAnalyses == 2   \* analyzeCode calls made

\* enable
Enable(S) == [S EXCEPT !.isEnabled = TRUE]

\* disable
Disable(S) == StopMonitoring([S EXCEPT !.isEnabled = FALSE])

\* startRuntimeMonitoring
StartRuntimeMonitoring(S, memOver, stackOver) ==
  IF ~S.isEnabled THEN S ELSE StartMonitoring(S, memOver, stackOver)

\* stopRuntimeMonitoring
StopRuntimeMonitoring(S) == StopMonitoring(S)

\* SecurityManager.checkAPIAccess that asks the monitor even when disabled
ManagerCheckAPIAccessAlways(S, apiName) == CheckAPIAccess(S, apiName)

\* SecurityManager.checkAPIAccess
ManagerCheckAPIAccess(S, apiName) ==
  IF ~S.isEnabled THEN Returns(S, "true") ELSE CheckAPIAccess(S, apiName)

\* SecurityManager.checkResourceLimits
ManagerCheckResourceLimits(S, memOver, stackOver) ==
  IF ~S.isEnabled
  THEN Returns(S, "true")
  ELSE CheckResourceLimits(S, memOver, stackOver)

EnableCall == Commit(Returns(Enable(Call), "void"))

DisableCall ==
  /\ eventsRecorded < MaxMonEvents
  /\ Commit(Returns(Disable(Call), "void"))

StartRuntimeMonitoringCall ==
  \E memOver \in BOOLEAN, stackOver \in BOOLEAN :
    /\ eventsRecorded < MaxMonEvents
    /\ Commit(Returns(StartRuntimeMonitoring(Call, memOver, stackOver),
                      "void"))

StopRuntimeMonitoringCall ==
  /\ eventsRecorded < MaxMonEvents
  /\ Commit(Returns(StopRuntimeMonitoring(Call), "void"))

ManagerCheckAPIAccessCall ==
  \E apiName \in APINames :
    /\ eventsRecorded < MaxMonEvents
    /\ Commit(ManagerCheckAPIAccess(Call, apiName))

ManagerCheckResourceLimitsCall ==
  \E memOver \in BOOLEAN, stackOver \in BOOLEAN :
    /\ eventsRecorded < MaxMonEvents
    /\ Commit(ManagerCheckResourceLimits(Call, memOver, stackOver))

AnalyzeCodeCall ==
  /\ analyzeCalls < MaxAnalyses
  /\ Commit(Returns(AnalyzeCodeBody(Call), "void"))

NextManager ==
  \/ EnableCall
  \/ DisableCall
  \/ StartRuntimeMonitoringCall
  \/ StopRuntimeMonitoringCall
  \/ ManagerCheckAPIAccessCall
  \/ ManagerCheckResourceLimitsCall
  \/ AnalyzeCodeCall
  \/ MonitorTimer

InitManager == \E issues \in GateInputs : InitWith(0, issues, 0)

SpecManager == InitManager /\ [][NextManager]_vars

\* ------------------------------------------------------------- claims
phpVars == <<phpExecutionId, phpTimeoutId, phpTimers, isExecuting,
             currentPhpInstance, PhpWebClass, ppc, pOwner, phpOutput,
             phpErrors>>

sinkVars == <<isRunning, stExecutionId, executionTime, firstExecutionTime,
              isCompiling, outputs>>

\* the events of the stream that call e emitted and that satisfy P
EventsOf(e, P(_)) ==
  {i \in DOMAIN outputs : outputs[i].exec = e /\ P(outputs[i])}

\* the latest call the dispatcher accepted (0 when there is none)
LatestAccepted ==
  LET acc == {e \in Attempts : dpc[e] \notin {"none", "rejected"}}
  IN IF acc = {} THEN 0 ELSE CHOOSE e \in acc : \A f \in acc : f <= e

\* C1: an executeCode call made on the dispatcher while an executionId is
\* tracked is rejected ('already running') and changes nothing else: not the
\* stream, not Execution State, not the tracked id or the watchdog, and no
\* compiler, gate, engine or PHP backend is invoked.
C1_RejectedCallHasNoEffect ==
  [][(calls' # calls /\ executionId # Null) =>
       /\ dpc' = [dpc EXCEPT ![calls'] = "rejected"]
       /\ UNCHANGED <<executionId, timeoutId, timers, languageOf, sinkVars,
                      monitoring, blockedExecutions, gateCalls, engineRuns,
                      phpRuns, phpVars>>]_vars

C1_Witness ==
  \E e \in Attempts : dpc[e] = "rejected" /\ executionId # Null

\* C2: a Python executeCode call made while an earlier Python execution is
\* in flight (the earlier call has started and its execution has not ended)
\* only adds the warning: no execution starts, and the earlier execution,
\* its worker and its watchdog are left alone.
C2_PySecondCallAbsorbed ==
  [][(pcalls' # pcalls /\ (pyIsExecuting \/ pyExecutionId # Null)) =>
       /\ pypc'[pcalls'] = "absorbed"
       /\ UNCHANGED <<pyExecutionId, pyTimers, worker, wState, wrun,
                      isRunning, stExecutionId>>]_vars

\* C3: an execution ended by a timeout - the manager's watchdog or the
\* worker's race timer - has exactly one error event of origin 'timeout' in
\* the stream and is no longer the tracked execution.
PyTimedOut(k) ==
  EventsOf(k, LAMBDA ev : ev.msg \in {"pyTimeout", "pyErrorTimeout"}) # {}

C3_TimeoutOutcome ==
  \A k \in PyAttempts :
    PyTimedOut(k) =>
      /\ Cardinality(EventsOf(k, LAMBDA ev : ev.source = "timeout"
                                             /\ ev.type = "error")) = 1
      /\ pyExecutionId # PyId(k)
      /\ stExecutionId # PyId(k)

\* C4: whenever Execution State shows running, something that is sure to
\* clear it is pending: an armed watchdog, or a step of the managers' own
\* (a pause timer, the engine bootstrap with its own 15 s timer).
WatchdogArmed == timers # {} \/ phpTimers # {}

OwnStepPending == ppc \in {"sleep50", "import", "awaitReady", "sleep100"}

C4_RunningIsWatched == isRunning => (WatchdogArmed \/ OwnStepPending)

\* C5: once the PHP watchdog has fired for a run that has not settled, the
\* next executeCode call is accepted: the dispatcher's slot is free and the
\* PHP manager's busy guard is clear.
PhpTimedOutUnsettled ==
  /\ ppc = "awaitRun"
  /\ EventsOf(pOwner, LAMBDA ev : ev.msg = "phpTimeout") # {}

C5_TimeoutRecoverable ==
  PhpTimedOutUnsettled => (executionId = Null /\ ~isExecuting)

\* C6: no execution has two terminal events (completed, failed, timed out)
\* in the stream.
TerminalMsgs ==
  {"timeout", "phpTimeout", "phpDone", "phpDoneNoOutput", "phpReturnCode",
   "phpRunError"}

C6_OneTerminalEvent ==
  \A e \in Attempts :
    Cardinality(EventsOf(e, LAMBDA ev : ev.msg \in TerminalMsgs)) <= 1

\* C7: the stream holds no event of an execution older than the latest one
\* accepted (accepting an execution clears the stream).
C7_NoSharedStream ==
  \A i \in DOMAIN outputs : outputs[i].exec >= LatestAccepted

\* C8: an engine is invoked for an attempt only after the security gate has
\* been evaluated for it, exactly once.
C8_GateBeforeBackend ==
  \A e \in Attempts :
    (engineRuns[e] > 0 \/ phpRuns[e] > 0) => gateCalls[e] = 1

\* C9: a step in which the gate rejects attempt e invokes no engine, leaves
\* monitoring off, and ends idle with the slot cleared and no watchdog armed.
Blocked(e, out) ==
  \E i \in DOMAIN out : out[i].exec = e /\ out[i].msg = "blocked"

C9_RejectionReturnsToIdle ==
  [][\A e \in Attempts :
       (gateCalls'[e] # gateCalls[e] /\ Blocked(e, outputs')) =>
         /\ engineRuns' = engineRuns
         /\ ~monitoring'
         /\ executionId' = Null
         /\ ~isRunning'
         /\ timers' = timers]_vars

\* C10: while an execution is tracked, a RESULT, ERROR or COMPLETE message
\* that carries the id of an earlier execution is ignored by the manager's
\* handler: no event is appended and Execution State, the tracked id and
\* the watchdog stay as they are.
C10_StaleMessageIgnored ==
  \A type \in {"RESULT", "ERROR", "COMPLETE"}, k \in PyAttempts :
    (pyExecutionId # Null /\ k < pyExecutionId.n) =>
      LET S == OnMessage(Cur, Msg(type, PyId(k), "runtime", wOf[k], k))
      IN /\ S.outputs = outputs
         /\ S.isRunning = isRunning
         /\ S.stExecutionId = stExecutionId
         /\ S.pyExecutionId = pyExecutionId
         /\ S.pyTimers = pyTimers
         /\ S.pyTimeoutId = pyTimeoutId

StoppedInFlight(e) ==
  dpc[e] \in {"awaitCompile", "awaitPhp"} /\ executionId # ExecId(e)

AppendsFor(e) ==
  \E i \in DOMAIN outputs' :
    /\ outputs'[i].exec = e
    /\ (i > Len(outputs) \/ outputs[i] # outputs'[i])

C12_StopReachesBackend ==
  [][\A e \in Attempts :
       StoppedInFlight(e) =>
         (~AppendsFor(e) /\ e \notin timers /\ e \notin phpTimers)]_vars

\* C13: the sink is never written running=true while it already shows
\* running - neither by the dispatcher accepting a call nor by the PHP
\* manager starting its run - and the id it shows is never replaced by
\* another id without the sink having shown idle in between.
C13_LinearExecutionState ==
  [][/\ (calls' # calls /\ dpc'[calls'] # "rejected") => ~isRunning
     /\ (phpExecutionId = Null /\ phpExecutionId' # Null) => ~isRunning
     /\ ~(isRunning /\ isRunning' /\ stExecutionId' # stExecutionId)]_vars

\* C14: when the latest accepted attempt has finished, the stream holds at
\* least one Output Event of that attempt.
C14_EventPerAttempt ==
  \A e \in Attempts :
    (dpc[e] = "done" /\ e = LatestAccepted) =>
      \E i \in DOMAIN outputs : outputs[i].exec = e

\* C15: the stream only grows at its end while an execution lasts (it is
\* emptied only by a starting execution), and every emission of a backend
\* - a delivered OUTPUT message, a PHP engine event - and then its terminal
\* signal adds exactly its own event at the end: emissions appear once, in
\* the order they were emitted, before the terminal event.
IsPrefix(s, t) == Len(s) <= Len(t) /\ SubSeq(t, 1, Len(s)) = s

StartsExecution ==
  \/ calls' # calls
  \/ phpExecutionId = Null /\ phpExecutionId' # Null
  \/ \E k \in PyAttempts : pypc[k] # "returned" /\ pypc'[k] = "returned"

PyDelivery ==
  toMain # <<>> /\ toMain' = Tail(toMain) /\ wState' = wState
    /\ pcalls' = pcalls

PhpEmission ==
  /\ ppc = "awaitRun" /\ ppc' = "awaitRun" /\ outputs' # outputs
  /\ UNCHANGED <<calls, dpc, timers, phpTimers, executionId>>

C15_OutputOrdering ==
  [][/\ StartsExecution \/ IsPrefix(outputs, outputs')
     /\ (PyDelivery /\ ~StartsExecution) =>
          LET m == Head(toMain)
          IN /\ m.type = "OUTPUT" =>
                  outputs' = Append(outputs,
                                    Ev(m.err, IF m.err = "error" THEN "error"
                                              ELSE "console", "pyOutput", m.k))
             /\ (m.type = "COMPLETE" /\ m.id = pyExecutionId) =>
                  outputs' = Append(outputs,
                                    Ev("info", "system", "pyComplete", m.k))
             /\ m.type = "ERROR" =>
                  outputs' = Append(outputs,
                                    Ev("error", "error", ErrorText(m.err),
                                       m.k))
     /\ PhpEmission =>
          \E ev \in {Ev("log", "console", "phpOutput", pOwner),
                      Ev("error", "error", "phpStderr", pOwner)} :
            outputs' = Append(outputs, ev)
     /\ (ppc = "awaitRun" /\ ppc' = "sleep100") =>
          /\ Len(outputs') = Len(outputs) + 1
          /\ IsPrefix(outputs, outputs')
          /\ outputs'[Len(outputs')].exec = pOwner
          /\ outputs'[Len(outputs')].msg \in
               {"phpDone", "phpDoneNoOutput", "phpReturnCode", "phpRunError"}
    ]_vars

\* a Python run printed to stdout, then to stderr, then completed, and the
\* stream shows the three events in that order
C15_Witness ==
  \E i \in DOMAIN outputs :
    /\ i + 2 \in DOMAIN outputs
    /\ outputs[i].msg = "pyOutput" /\ outputs[i].type = "log"
    /\ outputs[i + 1].msg = "pyOutput" /\ outputs[i + 1].type = "error"
    /\ outputs[i + 2].msg = "pyComplete"
    /\ outputs[i].exec = outputs[i + 2].exec
    /\ outputs[i + 1].exec = outputs[i + 2].exec

\* C16: an attempt runs on the engine its language tag selects: the JS
\* engine only for 'javascript' and 'typescript', the PHP engine only for
\* 'php'; source tagged 'python' never runs on either of them.
C16_RoutingByLanguage ==
  \A e \in Attempts :
    /\ engineRuns[e] > 0 => languageOf[e] \in {"javascript", "typescript"}
    /\ phpRuns[e] > 0 => languageOf[e] = "php"

\* C17: the step in which attempt e's compilation fails (returns
\* success=false or throws) appends one error event and nothing else,
\* evaluates no gate, starts neither monitoring nor the engine nor a
\* watchdog, and leaves the dispatcher's slot empty and the sink not
\* showing e.
CompileFails(e) ==
  /\ dpc[e] = "awaitCompile" /\ dpc'[e] = "done"
  /\ \E i \in DOMAIN outputs' :
       /\ outputs'[i].exec = e
       /\ outputs'[i].msg \in {"compileError", "compileThrew"}

C17_CompileFailureShortCircuit ==
  [][\A e \in Attempts :
       CompileFails(e) =>
         /\ \E ev \in {Ev("error", "error", "compileError", e),
                        Ev("error", "error", "compileThrew", e)} :
              outputs' = Append(outputs, ev)
         /\ UNCHANGED <<gateCalls, engineRuns, blockedExecutions>>
         /\ monitoring' => monitoring
         /\ timers' \subseteq timers
         /\ executionId' = Null
         /\ stExecutionId' # ExecId(e)]_vars

C17_Witness ==
  \E e \in Attempts :
    /\ dpc[e] = "done" /\ languageOf[e] = "typescript"
    /\ outputs # <<>>
    /\ outputs[Len(outputs)].exec = e
    /\ outputs[Len(outputs)].msg \in {"compileError", "compileThrew"}
    /\ executionId = Null /\ gateCalls[e] = 0

\* C18: when attempt e's compilation fails, the sink has not been showing
\* Execution State running for e.
C18_NoRunningBeforeCompile ==
  [][\A e \in Attempts :
       CompileFails(e) => ~(isRunning /\ stExecutionId = ExecId(e))]_vars

\* C18 as amended: a TypeScript attempt whose compilation failed (it
\* finished without ever reaching the gate) is shown running by the sink
\* only up to the failure: from then on neither the sink nor the dispatcher's
\* slot holds it, and no engine was run for it.
CompileFailed(e) ==
  languageOf[e] = "typescript" /\ dpc[e] = "done" /\ gateCalls[e] = 0

C18_IdleAfterCompileFailure ==
  \A e \in Attempts :
    CompileFailed(e) =>
      /\ stExecutionId # ExecId(e)
      /\ executionId # ExecId(e)
      /\ engineRuns[e] = 0

C18_Witness ==
  \E e \in Attempts : CompileFailed(e) /\ ~isRunning /\ e \notin timers

\* C19: the step in which the runtime monitor raises 'execution blocked'
\* during attempt e ends with the call resolved, one error event of e for
\* it at the end of the stream, monitoring off, the dispatcher's slot empty
\* and the sink not showing e.
MonitorBlocks(e) ==
  /\ blockedExecutions' # blockedExecutions
  /\ dpc[e] # "done" /\ dpc'[e] = "done"

C19_MonitorAbortContained ==
  [][\A e \in Attempts :
       MonitorBlocks(e) =>
         /\ outputs' # <<>>
         /\ outputs'[Len(outputs')] = Ev("error", "error", "monitorBlocked", e)
         /\ Cardinality({i \in DOMAIN outputs' :
                           outputs'[i].msg = "monitorBlocked"
                             /\ outputs'[i].exec = e}) = 1
         /\ ~monitoring'
         /\ executionId' = Null
         /\ stExecutionId' # ExecId(e)]_vars

\* C20: once the manager has handled the bootstrap failure of its worker
\* (the ERROR without executionId of worker k, posted before any READY),
\* the error is in the stream, no EXECUTE has been posted for the attempt,
\* and the manager is free for a call that initialises afresh: its busy
\* flag is clear and it does not count itself initialised.
BootFailureHandled(k) ==
  /\ worker = k /\ wState[k] = "failed"
  /\ \A i \in DOMAIN toMain : toMain[i].w # k

C20_InfraFailureRetryable ==
  \A k \in PyAttempts :
    BootFailureHandled(k) =>
      /\ \E i \in DOMAIN outputs : outputs[i].msg = "pyErrorBoot"
      /\ wrun[k] = "none"
      /\ ~pyIsExecuting
      /\ ~isInitialized

\* C21: a Python call whose code is empty or whitespace-only is not
\* rejected: once the call has dispatched, an EXECUTE for it has been posted
\* to the worker and the stream never holds the empty-code error for it.
C21_EmptyCodeRoundTrip ==
  \A k \in PyAttempts :
    pcode[k] = "empty" /\ pypc[k] = "returned" =>
      /\ wrun[k] # "none"
      /\ \A i \in DOMAIN outputs :
           ~(outputs[i].msg = "pyEmptyCode" /\ outputs[i].exec = k)

\* C22: whatever INIT messages reach one worker context and however their
\* bootstraps interleave, the context posts READY at most once: a step that
\* posts READY is taken only by a context that had not become ready.
PostsReady ==
  /\ Len(toMain') = Len(toMain) + 1
  /\ toMain'[Len(toMain')].type = "READY"

C22_ReadyExactlyOnce == [][PostsReady => ~isReady]_vars

\* C23: once the manager has recorded a package name as loaded (it has
\* handled PACKAGE_LOADED for it), a load request for that name is a no-op:
\* no LOAD_PACKAGE for the name is posted to the worker, whose handler
\* would invoke the package loader for it.
C23_IdempotentPackageLoad ==
  [][\A name \in Packages :
       name \in loadedPackages => toWorker' # Append(toWorker, name)]_vars

\* C24: a recordViolation call with severity critical puts the violation
\* last in the ledger, leaves the monitor inactive, adds exactly one to
\* blockedExecutions, records a block audit event last and throws; a call
\* with any other severity does not throw and leaves the monitoring flag
\* and blockedExecutions as they were.
RecordViolationStep(type, severity) ==
  Commit(Returns(RecordViolation(Call, type, severity), "void"))

C24_CriticalEscalation ==
  [][\A type \in ViolationTypes, severity \in Severities :
       RecordViolationStep(type, severity) =>
         /\ violations'[Len(violations')] =
              [type |-> type, severity |-> severity,
               n |-> violationsRecorded + 1]
         /\ violationsRecorded' = violationsRecorded + 1
         /\ IF severity = "critical"
            THEN /\ ~monitoring'
                 /\ blockedExecutions' = blockedExecutions + 1
                 /\ events'[Len(events')].type = "block"
                 /\ eventsRecorded' = eventsRecorded + 2
                 /\ monResult' = "threw"
            ELSE /\ monResult' = "void"
                 /\ monitoring' = monitoring
                 /\ blockedExecutions' = blockedExecutions]_vars

\* a critical violation was recorded while the monitor was in a window of
\* its own, and the call threw
C24_Witness ==
  /\ monResult = "threw"
  /\ mWindow > 0
  /\ violations # <<>>
  /\ violations[Len(violations)] =
       [type |-> "blocked_api", severity |-> "critical",
        n |-> violationsRecorded]
  /\ events[Len(events)].type = "block"
  /\ ~monitoring
  /\ blockedExecutions = 1

\* C25: a checkResourceLimits call returns false and records exactly one
\* violation when the memory growth or the stack depth is over its limit,
\* and returns true recording nothing otherwise.
CheckResourceLimitsStep(memOver, stackOver) ==
  Commit(CheckResourceLimits(Call, memOver, stackOver))

C25_ResourceLimitsResult ==
  [][\A memOver \in BOOLEAN, stackOver \in BOOLEAN :
       CheckResourceLimitsStep(memOver, stackOver) =>
         IF memOver \/ stackOver
         THEN /\ monResult' = "false"
              /\ violationsRecorded' = violationsRecorded + 1
         ELSE /\ monResult' = "true"
              /\ violations' = violations
              /\ events' = events]_vars

\* C26: a checkAPIAccess call returns false exactly when the name is on the
\* blocked list.  A false result has put one violation of type blocked_api
\* and severity high last in the violation ledger and one violation event
\* last in the event ledger; a true result leaves both ledgers as they were.
CheckAPIAccessStep(apiName) == Commit(CheckAPIAccess(Call, apiName))

C26_APIAccessVerdict ==
  [][\A apiName \in APINames :
       CheckAPIAccessStep(apiName) =>
         /\ monResult' \in {"true", "false"}
         /\ monResult' = "false" <=> apiName \in BlockedAPIs
         /\ IF monResult' = "false"
            THEN /\ violationsRecorded' = violationsRecorded + 1
                 /\ violations'[Len(violations')] =
                      [type |-> "blocked_api", severity |-> "high",
                       n |-> violationsRecorded']
                 /\ eventsRecorded' = eventsRecorded + 1
                 /\ events'[Len(events')] =
                      [type |-> "violation", n |-> eventsRecorded']
            ELSE /\ violations' = violations
                 /\ events' = events
                 /\ violationsRecorded' = violationsRecorded
                 /\ eventsRecorded' = eventsRecorded]_vars

\* a blocked name was refused inside a monitoring window
C26_Witness ==
  /\ monResult = "false"
  /\ monitoring
  /\ violations # <<>>
  /\ violations[Len(violations)].type = "blocked_api"
  /\ violations[Len(violations)].severity = "high"
  /\ events[Len(events)].type = "violation"

\* C27: the violation ledger never holds more than 100 entries and the
\* event ledger never more than 500; each holds the entries recorded last,
\* as many as fit, in the order they were recorded (entry n of a ledger is
\* the n-th entry ever recorded in it).
NewestInOrder(ledger, recorded, cap) ==
  /\ Len(ledger) = IF recorded < cap THEN recorded ELSE cap
  /\ \A i \in DOMAIN ledger : ledger[i].n = recorded - Len(ledger) + i

C27_BoundedLedgers ==
  /\ NewestInOrder(violations, violationsRecorded, 100)
  /\ NewestInOrder(events, eventsRecorded, 500)

\* both ledgers have overflowed
C27_Witness ==
  /\ violationsRecorded > 100
  /\ eventsRecorded > 500
  /\ Len(violations) = 100
  /\ Len(events) = 500
  /\ violations[1].n = violationsRecorded - 99
  /\ events[1].n = eventsRecorded - 499

\* C28: startMonitoring on an active monitor records no event and schedules
\* no timer; at most one timeout check, one memory chain and one stack
\* chain are pending at any time; and a pending check that a window other
\* than the current one scheduled records no violation and does not throw
\* when it fires.
TimerKinds == {"timeout", "memory", "stack"}

C28_WindowsDoNotLeak ==
  /\ monitoring =>
       \A memOver \in BOOLEAN, stackOver \in BOOLEAN :
         LET R == StartMonitoring(Call, memOver, stackOver)
         IN R.events = events /\ R.mTimers = mTimers
  /\ \A kind \in TimerKinds :
       Cardinality({t \in mTimers : t.kind = kind}) <= 1
  /\ \A t \in mTimers, a \in BOOLEAN, b \in BOOLEAN :
       t.win # mWindow =>
         LET R == TimerBody([Call EXCEPT !.mTimers = @ \ {t}], t, a, b)
         IN R.violationsRecorded = violationsRecorded /\ R.monResult # "threw"

\* C29: the environment built for a piece of code counts as errors the
\* issues of severity high or critical and as warnings those of severity
\* low or medium, so that errors and warnings add up to the issues; and it
\* is unsafe exactly when the risk level is critical, or is high with more
\* than 2 errors.
SeverityIn(sevs) == {i \in DOMAIN analysisIssues : analysisIssues[i] \in sevs}

C29_GateVerdict ==
  environment.riskLevel # "none" =>
    /\ environment.errors = Cardinality(SeverityIn({"high", "critical"}))
    /\ environment.warnings = Cardinality(SeverityIn({"low", "medium"}))
    /\ environment.errors + environment.warnings = Len(analysisIssues)
    /\ ~environment.isSafe <=>
         \/ environment.riskLevel = "critical"
         \/ environment.riskLevel = "high" /\ environment.errors > 2

\* an environment refused at risk level high, with errors and a warning
C29_Witness ==
  /\ environment.riskLevel = "high"
  /\ ~environment.isSafe
  /\ environment.errors = 3
  /\ environment.warnings = 1

\* C30: the risk level the analyzer reports is critical if an issue is
\* critical; otherwise high if more than 2 issues are high; otherwise
\* medium if an issue is high or more than 3 are medium; otherwise low.
C30_RiskLevelDerivation ==
  analysis.riskLevel # "none" =>
    analysis.riskLevel =
      IF SeverityIn({"critical"}) # {} THEN "critical"
      ELSE IF Cardinality(SeverityIn({"high"})) > 2 THEN "high"
      ELSE IF SeverityIn({"high"}) # {}
                \/ Cardinality(SeverityIn({"medium"})) > 3
           THEN "medium"
      ELSE "low"

\* four medium issues and no high one make the risk medium
C30_Witness ==
  /\ analysis.riskLevel = "medium"
  /\ Cardinality(SeverityIn({"medium"})) = 4
  /\ SeverityIn({"high"}) = {}

\* C31: when a piece of code is analysed again after text that raises
\* further issues has been added to it, the risk level reported is not
\* lower than the one reported before, in the order low < medium < high <
\* critical.
Rank(level) ==
  CASE level = "low" -> 1
    [] level = "medium" -> 2
    [] level = "high" -> 3
    [] level = "critical" -> 4
    [] OTHER -> 0

C31_RiskLevelMonotone ==
  [][analysis.riskLevel # "none" /\ analyzeCalls' = analyzeCalls + 1
       => Rank(analysis'.riskLevel) >= Rank(analysis.riskLevel)]_vars

\* a second critical issue was added to code already found critical
C31_Witness ==
  /\ analyzeCalls >= 2
  /\ analysis.riskLevel = "critical"
  /\ Cardinality(SeverityIn({"critical"})) >= 2

\* C32: the confidence of an analysis lies between 0.1 and 1.0, is 1.0
\* exactly when no issue was found, and with n > 0 issues in code of length
\* L is max(0.1, 1.0 - 0.1 * n / max(L / 100, 1)), that is, with
\* D = max(L, 100), the larger of 1/10 and (D - 10 n) / D.
C32_ConfidenceBound ==
  analyzeCalls > 0 =>
    LET n == Len(analysisIssues)
        D == IF codeLength > 100 THEN codeLength ELSE 100
    IN /\ confidence.den > 0
       /\ 10 * confidence.num >= confidence.den
       /\ confidence.num <= confidence.den
       /\ confidence.num = confidence.den <=> n = 0
       /\ n > 0 =>
            IF 10 * (D - 10 * n) >= D
            THEN confidence.num * D = confidence.den * (D - 10 * n)
            ELSE 10 * confidence.num = confidence.den

\* an analysis whose confidence was held at the floor
C32_Witness ==
  /\ analyzeCalls > 0
  /\ Len(analysisIssues) > 9
  /\ codeLength <= 100
  /\ 10 * confidence.num = confidence.den

\* C33: a manager is enabled when constructed.  While it is disabled,
\* analyzeCode returns a safe result of risk 'low' whatever the code,
\* checkAPIAccess and checkResourceLimits return true, no call records a
\* violation or an event, and startRuntimeMonitoring leaves monitoring
\* inactive; disable() leaves monitoring inactive.
DisabledStep == ~isEnabled /\ ~isEnabled'

C33_DisabledInert ==
  /\ isEnabled = TRUE
  /\ [][/\ DisabledStep =>
             /\ violations' = violations
             /\ events' = events
             /\ ~monitoring'
             /\ analyzeCalls' # analyzeCalls =>
                  /\ analysis' = [safe |-> TRUE, riskLevel |-> "low"]
                  /\ confidence'.num = confidence'.den
        /\ \A apiName \in APINames :
             DisabledStep /\ Commit(ManagerCheckAPIAccess(Call, apiName))
               => monResult' = "true"
        /\ \A memOver \in BOOLEAN, stackOver \in BOOLEAN :
             DisabledStep
             /\ Commit(ManagerCheckResourceLimits(Call, memOver, stackOver))
               => monResult' = "true"
        /\ isEnabled /\ ~isEnabled' => ~monitoring']_vars

\* a disabled manager, disabled while monitoring was active, has analysed
\* code with issues and answered a check
C33_Witness ==
  /\ ~isEnabled
  /\ monResult = "true"
  /\ mTimers # {}
  /\ analysisIssues # <<>>
  /\ analysis = [safe |-> TRUE, riskLevel |-> "low"]

\* C34: for every EXECUTE the worker receives while its STOP flag is not
\* set it posts exactly one terminal message with the same executionId:
\* ERROR when the context is not ready; RESULT then COMPLETE when the run
\* resolves with a value, COMPLETE alone when it resolves with none; ERROR
\* with the run's message when it rejects; ERROR with the timeout message
\* when the timer wins.  After the terminal message it posts nothing for
\* that id, even when the run settles after the timer has won.
Posted ==
  IF Len(toMain') >= Len(toMain) /\ SubSeq(toMain', 1, Len(toMain)) = toMain
  THEN SubSeq(toMain', Len(toMain) + 1, Len(toMain'))
  ELSE <<>>

PostedFor(k) == SelectSeq(Posted, LAMBDA m : m.id = PyId(k))

Kinds(seq) == [i \in 1..Len(seq) |-> <<seq[i].type, seq[i].err>>]

\* the messages the outcome of run k calls for, when the step is that outcome
Replies(k) ==
  /\ \A timed \in BOOLEAN :
       wrun[k] = "none" /\ Commit(WorkerExecuteCodeBody(Cur, k, timed))
         => Kinds(PostedFor(k)) = IF isReady /\ pyodide
                                  THEN <<>>
                                  ELSE << <<"ERROR", "notReady">> >>
  /\ wrun[k] \in {"racing", "running"}
     /\ Commit(WorkerRunSettleBody(Cur, k, "value"))
       => Kinds(PostedFor(k)) = << <<"RESULT", "">>, <<"COMPLETE", "">> >>
  /\ wrun[k] \in {"racing", "running"}
     /\ Commit(WorkerRunSettleBody(Cur, k, "none"))
       => Kinds(PostedFor(k)) = << <<"COMPLETE", "">> >>
  /\ wrun[k] \in {"racing", "running"}
     /\ Commit(WorkerRunSettleBody(Cur, k, "reject"))
       => Kinds(PostedFor(k)) = << <<"ERROR", "runtime">> >>
  /\ wrun[k] = "racing" /\ Commit(WorkerRaceTimeoutBody(Cur, k))
       => Kinds(PostedFor(k)) = << <<"ERROR", "timeout">> >>

\* once the outcome of run k is decided, nothing more is posted for it
Silent(k) ==
  wrun[k] \in {"over", "background"}
    => PostedFor(k) = <<>> /\ wrun'[k] \in {"over", "background"}

C34_WorkerReplyProtocol ==
  [][\A k \in PyAttempts :
       /\ Silent(k)
       /\ (wrun[k] = "none" => ~terminated) /\ ~execFlagged[k]
            => Replies(k)]_vars

\* C34, amended: the outcome of a run is answered as stated when the STOP
\* flag is not set at the moment of the outcome; a run that settles or
\* times out while the flag is set posts nothing.
C34_ReplyProtocolUnlessStopped ==
  [][\A k \in PyAttempts :
       /\ Silent(k)
       /\ ~terminated => Replies(k)
       /\ terminated /\ wrun[k] \in {"racing", "running"}
            => PostedFor(k) = <<>>]_vars

\* the timer won, the timeout ERROR was posted, the run settled afterwards,
\* and the ERROR is all the worker has posted for the run
C34_Witness ==
  \E k \in PyAttempts :
    /\ wrun[k] = "over"
    /\ ~terminated
    /\ Kinds(SelectSeq(toMain, LAMBDA m : m.id = PyId(k)))
         = << <<"ERROR", "timeout">> >>

\* C35: every call to PythonSandboxManager.executeCode that has suspended
\* (on the resource check or on READY) eventually resolves or rejects, and
\* the isExecuting guard is never left set forever.
C35_EveryCallSettles ==
  /\ \A k \in PyAttempts :
       pypc[k] \in {"awaitResources", "awaitReady"}
         ~> pypc[k] \in {"returned", "threw"}
  /\ pyIsExecuting ~> ~pyIsExecuting

\* C36: whenever the Execution State in the sink shows running = false,
\* the dispatcher's in-flight slot is empty (getStatus().isRunning is
\* false).
C36_IdleSinkIdleDispatcher == ~isRunning => ~GetStatus(Cur)

\* C37: Compile State shows compiling = true only while a compile call is
\* pending: once every executeCode call on the TypeScript path has gone
\* past its compile, whether the compiler returned or threw, compiling is
\* false.
C37_CompileStateReleased ==
  isCompiling => \E e \in Attempts : dpc[e] = "awaitCompile"

\* C38: when the manager handles an ERROR message that carries no
\* executionId while a Python execution is in flight, the execution's
\* Execution State, tracked executionId and watchdog are left as they were.
HandlesIdlessError ==
  /\ toMain # <<>>
  /\ Head(toMain).type = "ERROR"
  /\ Head(toMain).id = Null
  /\ Commit(OnMessage([Cur EXCEPT !.toMain = Tail(@)], Head(toMain)))

C38_LoadFailureKeepsExecution ==
  [][HandlesIdlessError /\ pyExecutionId # Null
       => UNCHANGED <<isRunning, stExecutionId, pyExecutionId, pyTimeoutId,
                      pyTimers>>]_vars

\* C39: when the dispatcher delegates a PHP request and the PHP manager
\* absorbs it because its busy guard is set, the dispatcher does not record
\* a completed execution: the step writes no duration and no
\* firstExecutionTime.
AbsorbedByPhp(e) ==
  /\ dpc[e] = "none"
  /\ languageOf'[e] = "php"
  /\ isExecuting
  /\ \E i \in DOMAIN outputs' :
       outputs'[i].msg = "phpBusy" /\ outputs'[i].exec = e

C39_AbsorbedNotCompleted ==
  [][\A e \in Attempts :
       AbsorbedByPhp(e) =>
         /\ executionTime' = FALSE
         /\ firstExecutionTime' = firstExecutionTime]_vars

\* C40: the manager posts EXECUTE only to a live worker that has reported
\* READY since it was created: never with no worker, and never to a worker
\* that is terminated or still bootstrapping.
PostsExecute(k) == wrun[k] # "queued" /\ wrun'[k] = "queued"

C40_ExecuteOnlyToReadyWorker ==
  [][\A k \in PyAttempts :
       PostsExecute(k) =>
         /\ worker' # 0
         /\ wOf'[k] = worker'
         /\ wState'[worker'] = "ready"]_vars

====
